---- MODULE Spec2Model ----
\* A model of the terminal emulator of src/main.rs: the command-line editing
\* done by App::input, the main loop of App::run, App::run_command and the
\* two PATH resolvers find_command and find_commands.
\*
\* Strings (command lines, paths, program output) are sequences of one-character
\* strings, so that splitting, joining and popping are computed, not assumed.
EXTENDS Integers, Sequences, FiniteSets, TLC

VARIABLES
    buffer,        \* App.buffer: everything printed so far (the transcript)
    command_line,  \* App.command_line: the line being typed
    pc,            \* where App::run stands
    actions,       \* the Vec<AppAction> of input() that run() still iterates
    result,        \* what the last call of run_command in this iteration returned
    spawned,       \* number of child processes created in this iteration
    outcome,       \* what the operating system did with the last spawn attempt
    expected,      \* the line after every event of the batch, while a Submit is next
    at_return,     \* the line as it stood when the first Return of the batch was polled
    path,          \* the PATH variable, split: a sequence of directory paths
    fs,            \* the regular files present below the search directories
    to_check,      \* resolver harness: the names handed to the resolvers
    found,         \* resolver harness: what find_commands returned
    each,          \* resolver harness: what find_command returned per name
    rpc,           \* resolver harness: position
    key,           \* editor harness: the one event input() is called with
    before,        \* editor harness: command_line before that call
    epc            \* editor harness: position

vars == <<buffer, command_line, pc, actions, result, spawned, outcome, expected,
          at_return, path, fs, to_check, found, each, rpc, key, before, epc>>

sessionVars == <<buffer, command_line, pc, actions, result, spawned, outcome,
                 expected, at_return>>
envVars == <<path, fs>>
resolverVars == <<to_check, found, each, rpc>>
editorVars == <<key, before, epc>>

\* ---------------------------------------------------------------- bounds
MaxLine == 3
MaxBatch == 2
MaxBuffer == 4
MaxPath == 2
MaxNames == 2
MaxEditLine == 3

\* ---------------------------------------------------------------- helpers
Last(s) == s[Len(s)]
Front(s) == SubSeq(s, 1, Len(s) - 1)

IsPrefix(s, t) == Len(s) <= Len(t) /\ SubSeq(t, 1, Len(s)) = s

SeqsUpTo(S, n) == UNION {[1..k -> S] : k \in 0..n}

None == <<"None">>
Some(x) == <<"Some", x>>

\* ---------------------------------------------------------------- file system
\* The directory tree the resolvers look at.  A path is a sequence of
\* characters; a location is the sequence of component names below the root.
DirA == <<"/", "a">>
DirB == <<"/", "b">>
FileF == <<"/", "f">>
Missing == <<"/", "n">>
ToolA == <<"/", "a", "/", "t">>
ToolB == <<"/", "b", "/", "t">>

PathEntries == {DirA, DirB, FileF, Missing}
CandidateFiles == {ToolA, ToolB}

\* str::split on one separator character: the pieces between separators
RECURSIVE SplitOn(_, _, _)
SplitOn(s, sep, cur) ==
    IF s = <<>> THEN <<cur>>
    ELSE IF Head(s) = sep THEN <<cur>> \o SplitOn(Tail(s), sep, <<>>)
    ELSE SplitOn(Tail(s), sep, Append(cur, Head(s)))

Components(p) == SplitOn(p, "/", <<>>)

\* the kind of the entry at a location: "dir", "file" or "none"
Kind(loc, files) ==
    IF loc \in {<<>>, <<<<"a">>>>, <<<<"b">>>>} THEN "dir"
    ELSE IF loc = <<<<"f">>>> THEN "file"
    ELSE IF \E f \in files : loc = Tail(Components(f)) THEN "file"
    ELSE "none"

\* path resolution of the operating system: walk the components from the root
RECURSIVE Walk(_, _, _)
Walk(comps, loc, files) ==
    IF comps = <<>> THEN Kind(loc, files)
    ELSE IF Kind(loc, files) # "dir" THEN "none"
    ELSE IF Head(comps) \in {<<>>, <<".">>} THEN Walk(Tail(comps), loc, files)
    ELSE IF Head(comps) = <<".", ".">>
         THEN Walk(Tail(comps), IF loc = <<>> THEN loc ELSE Front(loc), files)
    ELSE Walk(Tail(comps), Append(loc, Head(comps)), files)

\* Path::metadata / Path::exists as the resolvers use them
Stat(p, files) == IF p = <<>> THEN "none" ELSE Walk(Components(p), <<>>, files)
is_dir(p, files) == Stat(p, files) = "dir"
exists(p, files) == Stat(p, files) # "none"

\* Path::join: an absolute argument replaces the base, otherwise it is
\* appended after a separator (added unless the base already ends with one)
join(base, rel) ==
    IF rel # <<>> /\ rel[1] = "/" THEN rel
    ELSE IF base = <<>> \/ Last(base) = "/" THEN base \o rel
    ELSE base \o <<"/">> \o rel

\* ---------------------------------------------------------------- resolvers
\* a resolver that keeps scanning and lets a later directory win
RECURSIVE find_in_last(_, _, _)
find_in_last(paths, name, files) ==
    IF paths = <<>> THEN None
    ELSE LET p == Head(paths)
             candidate == join(p, name)
             later == find_in_last(Tail(paths), name, files)
         IN IF later # None THEN later
            ELSE IF is_dir(p, files) /\ exists(candidate, files)
            THEN Some(candidate)
            ELSE None

RECURSIVE find_in(_, _, _)
find_in(paths, name, files) ==
    IF paths = <<>> THEN None
    ELSE LET p == Head(paths)
             candidate == join(p, name)
         IN IF is_dir(p, files) /\ exists(candidate, files)
            THEN Some(candidate)
            ELSE find_in(Tail(paths), name, files)

find_command(name, paths, files) == find_in(paths, name, files)

\* the inner loop of find_commands over one directory
scan_dir(p, names, acc, files) ==
    [i \in 1..Len(names) |->
        IF exists(join(p, names[i]), files) THEN Some(join(p, names[i]))
        ELSE acc[i]]

RECURSIVE scan_all(_, _, _, _)
scan_all(paths, names, acc, files) ==
    IF paths = <<>> THEN acc
    ELSE scan_all(Tail(paths), names,
                  IF is_dir(Head(paths), files)
                  THEN scan_dir(Head(paths), names, acc, files)
                  ELSE acc,
                  files)

find_commands(names, paths, files) ==
    scan_all(paths, names, [i \in 1..Len(names) |-> None], files)

\* ---------------------------------------------------------------- line editing
\* a key table with chosen characters for T and M
TableWith(t, m) ==
    [A |-> "a", B |-> "b", C |-> "c", D |-> "d", E |-> "e", F |-> "f",
     G |-> "g", H |-> "h", I |-> "i", J |-> "j", K |-> "k", L |-> "l",
     M |-> m, N |-> "n", O |-> "o", P |-> "p", Q |-> "q", R |-> "r",
     S |-> "s", T |-> t, U |-> "u", V |-> "v", W |-> "w", X |-> "x",
     Y |-> "y", Z |-> "z", Space |-> " ", Slash |-> "/", Period |-> "."]

\* a table that pushes the capital for one key
KeyTable_upper == TableWith("T", "m")

\* a table with a slip in one line: M pushes the character of N
KeyTable_typo == TableWith("t", "n")

\* the key table of App::input: the character each key pushes
KeyTable ==
    [A |-> "a", B |-> "b", C |-> "c", D |-> "d", E |-> "e", F |-> "f",
     G |-> "g", H |-> "h", I |-> "i", J |-> "j", K |-> "k", L |-> "l",
     M |-> "m", N |-> "n", O |-> "o", P |-> "p", Q |-> "q", R |-> "r",
     S |-> "s", T |-> "t", U |-> "u", V |-> "v", W |-> "w", X |-> "x",
     Y |-> "y", Z |-> "z", Space |-> " ", Slash |-> "/", Period |-> "."]

\* the keys the arm for a key-down with any other modifier still handles
ModifiedKeys == {"Space", "Slash", "Period"}

AsciiWhitespace == {" ", "\t", "\n", "\f", "\r"}

\* str::split_ascii_whitespace: the maximal runs of non-whitespace characters
RECURSIVE split_words(_, _)
split_words(s, cur) ==
    IF s = <<>> THEN (IF cur = <<>> THEN <<>> ELSE <<cur>>)
    ELSE IF Head(s) \in AsciiWhitespace
         THEN (IF cur = <<>> THEN <<>> ELSE <<cur>>) \o split_words(Tail(s), <<>>)
    ELSE split_words(Tail(s), Append(cur, Head(s)))

split_ascii_whitespace(s) == split_words(s, <<>>)

\* [&str]::join(" ")
RECURSIVE join_words(_)
join_words(words) ==
    IF words = <<>> THEN <<>>
    ELSE IF Len(words) = 1 THEN words[1]
    ELSE words[1] \o <<" ">> \o join_words(Tail(words))

\* a pop that takes from the wrong end
pop_head(s) == IF s = <<>> THEN s ELSE Tail(s)

\* Vec::pop and String::pop: drop the last element, nothing on an empty one
pop(s) == IF s = <<>> THEN s ELSE Front(s)

\* a delete-word arm that only removes one character
delete_word_char(cl) == pop(cl)

\* Backspace with Mod::LSHIFTMOD
delete_word(cl) == join_words(pop(split_ascii_whitespace(cl)))

\* SDL events as input() tells them apart
KeyDown(k, m) == [type |-> "KeyDown", keycode |-> k, keymod |-> m]
OtherEvent(t) == [type |-> t, keycode |-> "None", keymod |-> "NOMOD"]

\* one arm of the match of input(): the new command_line
edit(cl, ev) ==
    IF ev.type \in {"TextInput", "TextEditing"} THEN cl
    ELSE IF ev.type = "Quit" \/ (ev.type = "KeyDown" /\ ev.keycode = "Escape") THEN cl
    ELSE IF ev.type = "KeyDown" /\ ev.keycode = "Return" THEN cl
    ELSE IF ev.type = "KeyDown" /\ ev.keycode = "Backspace" /\ ev.keymod = "LSHIFTMOD"
         THEN delete_word(cl)
    ELSE IF ev.type = "KeyDown" /\ ev.keycode # "None" /\ ev.keymod = "NOMOD"
         THEN IF ev.keycode = "Backspace" THEN pop(cl)
              ELSE IF ev.keycode \in DOMAIN KeyTable
                   THEN Append(cl, KeyTable[ev.keycode])
              ELSE cl
    ELSE IF ev.type = "KeyDown" /\ ev.keycode # "None"
         THEN IF ev.keycode \in ModifiedKeys
              THEN Append(cl, KeyTable[ev.keycode])
              ELSE cl
    ELSE cl

\* a match that takes a text-input event for a confirm
pushed_text(ev) ==
    IF ev.type \in {"TextInput", "TextEditing"} THEN <<"RunCommand">>
    ELSE IF ev.type = "Quit" \/ (ev.type = "KeyDown" /\ ev.keycode = "Escape")
         THEN <<"Exit">>
    ELSE IF ev.type = "KeyDown" /\ ev.keycode = "Return" THEN <<"RunCommand">>
    ELSE <<>>

\* one arm of the match of input(): the AppActions it pushes
pushed(ev) ==
    IF ev.type \in {"TextInput", "TextEditing"} THEN <<>>
    ELSE IF ev.type = "Quit" \/ (ev.type = "KeyDown" /\ ev.keycode = "Escape")
         THEN <<"Exit">>
    ELSE IF ev.type = "KeyDown" /\ ev.keycode = "Return" THEN <<"RunCommand">>
    ELSE <<>>

\* a loop that stops editing at the first Return of the batch
RECURSIVE drain_line_to_return(_, _)
drain_line_to_return(cl, batch) ==
    IF batch = <<>> THEN cl
    ELSE IF Head(batch).type = "KeyDown" /\ Head(batch).keycode = "Return" THEN cl
    ELSE drain_line_to_return(edit(cl, Head(batch)), Tail(batch))

\* the poll_iter loop of input(): every event of the batch, in order
RECURSIVE drain_line(_, _)
drain_line(cl, batch) ==
    IF batch = <<>> THEN cl ELSE drain_line(edit(cl, Head(batch)), Tail(batch))

RECURSIVE drain_actions(_)
drain_actions(batch) ==
    IF batch = <<>> THEN <<>> ELSE pushed(Head(batch)) \o drain_actions(Tail(batch))

\* the events of a batch applied one after the other, the last one last
RECURSIVE after_all(_, _)
after_all(cl, batch) ==
    IF batch = <<>> THEN cl ELSE edit(after_all(cl, Front(batch)), Last(batch))

\* the events of a batch that were polled before its first Return
before_return(batch) ==
    LET returns == {i \in 1..Len(batch) : pushed(batch[i]) = <<"RunCommand">>}
        first == CHOOSE i \in returns : \A j \in returns : i <= j
    IN IF returns = {} THEN batch ELSE SubSeq(batch, 1, first - 1)

until_return(cl, batch) == after_all(cl, before_return(batch))

\* the Vec<AppAction> input() returns
input_actions(batch) ==
    LET events == drain_actions(batch) IN
    IF events = <<>> THEN <<"None">> ELSE events

\* ---------------------------------------------------------------- run_command
Outputs == {<<>>, <<"h", "i">>}

\* what the operating system does with a spawn: it cannot create the process,
\* or the child writes bytes that are not UTF-8, or it writes a text
OsOutcomes == {<<"SpawnFailed">>, <<"InvalidUtf8">>} \cup {<<"Stdout", o>> : o \in Outputs}

Ret(tag, val, child, ran) == [tag |-> tag, val |-> val, child |-> child, ran |-> ran]

NotRun == Ret("NotRun", <<>>, None, FALSE)

\* a run_command that passes only the tokens after the program name
run_command_rest(cl, paths, files, os) ==
    IF cl = <<>> THEN Ret("Err", "EmptyCommand", None, FALSE)
    ELSE LET words == split_ascii_whitespace(cl) IN
         IF words = <<>> THEN Ret("Panic", "index out of bounds", None, FALSE)
         ELSE LET command == find_command(words[1], paths, files)
                  child == Some(<<command[2], Tail(words)>>)
              IN IF command = None THEN Ret("Ok", <<>>, None, FALSE)
                 ELSE IF os[1] = "SpawnFailed"
                      THEN Ret("Err", "SpawnFailed", child, FALSE)
                 ELSE IF os[1] = "InvalidUtf8"
                      THEN Ret("Err", "InvalidOutputEncoding", child, TRUE)
                 ELSE Ret("Ok", os[2], child, TRUE)

run_command(cl, paths, files, os) ==
    IF cl = <<>> THEN Ret("Err", "EmptyCommand", None, FALSE)
    ELSE LET words == split_ascii_whitespace(cl) IN
         IF words = <<>> THEN Ret("Panic", "index out of bounds", None, FALSE)
         ELSE LET command == find_command(words[1], paths, files)
                  child == Some(<<command[2], words>>)
              IN IF command = None THEN Ret("Ok", <<>>, None, FALSE)
                 ELSE IF os[1] = "SpawnFailed"
                      THEN Ret("Err", "SpawnFailed", child, FALSE)
                 ELSE IF os[1] = "InvalidUtf8"
                      THEN Ret("Err", "InvalidOutputEncoding", child, TRUE)
                 ELSE Ret("Ok", os[2], child, TRUE)

\* an arm that appends the output but forgets to reset the line
on_result_keep_line(buf, cl, r) ==
    IF r.tag = "Ok" THEN <<buf \o r.val, cl>> ELSE <<buf, cl>>

\* an arm that resets the line whatever run_command returned
on_result_clear_always(buf, cl, r) ==
    IF r.tag = "Ok" THEN <<buf \o r.val, <<>>>> ELSE <<buf, <<>>>>

\* an arm that assigns the output to the buffer instead of appending it
on_result_replace(buf, cl, r) ==
    IF r.tag = "Ok" THEN <<r.val, <<>>>> ELSE <<buf, cl>>

\* the RunCommand arm of run(): <<buffer, command_line>> after the call
on_result(buf, cl, r) ==
    IF r.tag = "Ok" THEN <<buf \o r.val, <<>>>> ELSE <<buf, cl>>

\* ---------------------------------------------------------------- environment
SearchPaths == SeqsUpTo(PathEntries, MaxPath)

InitEnv ==
    /\ path \in SearchPaths
    /\ fs \in SUBSET CandidateFiles

\* the PATH of the session: a missing entry, then two directories
SessionPath == <<Missing, DirA, DirB>>

InitSessionEnv ==
    /\ path = SessionPath
    /\ fs \in SUBSET CandidateFiles

\* ---------------------------------------------------------------- the session
\* the events a batch of the session is drawn from
SessionEvents ==
    {KeyDown("T", "NOMOD"), KeyDown("T", "LSHIFTMOD"),
     KeyDown("Space", "NOMOD"), KeyDown("Space", "LSHIFTMOD"),
     KeyDown("Backspace", "NOMOD"), KeyDown("Backspace", "LSHIFTMOD"),
     KeyDown("Backspace", "LCTRLMOD"), KeyDown("F1", "NOMOD"),
     KeyDown("Return", "NOMOD"), KeyDown("Escape", "NOMOD"),
     OtherEvent("Quit"), OtherEvent("TextInput"), OtherEvent("MouseMotion")}

Batches == SeqsUpTo(SessionEvents, MaxBatch)

Init ==
    /\ buffer = <<>>
    /\ command_line = <<>>
    /\ pc = "input"
    /\ actions = <<>>
    /\ result = NotRun
    /\ spawned = 0
    /\ outcome = None
    /\ expected = None
    /\ at_return = None
    /\ InitSessionEnv
    /\ to_check = <<>>
    /\ found = <<>>
    /\ each = <<>>
    /\ rpc = "off"
    /\ key = <<>>
    /\ before = <<>>
    /\ epc = "off"

\* input() drains the pending events and returns the actions
Input ==
    /\ pc = "input"
    /\ \E batch \in Batches :
         LET cl == drain_line(command_line, batch) IN
         /\ Len(cl) <= MaxLine
         /\ command_line' = cl
         /\ actions' = input_actions(batch)
         /\ expected' = IF Head(input_actions(batch)) = "RunCommand"
                        THEN Some(after_all(command_line, batch)) ELSE None
         /\ at_return' = IF Head(input_actions(batch)) = "RunCommand"
                         THEN Some(until_return(command_line, batch)) ELSE None
    /\ pc' = "events"
    /\ UNCHANGED <<buffer, result, spawned, outcome, envVars, resolverVars, editorVars>>

\* event_pump() fails: run() prints the error and leaves the loop
InputFails ==
    /\ pc = "input"
    /\ pc' = "done"
    /\ UNCHANGED <<buffer, command_line, actions, result, spawned, outcome, expected, at_return,
                   envVars, resolverVars, editorVars>>

\* after the arm of one action: the next action, or the redraw
Advance == IF Tail(actions) = <<>> THEN "render" ELSE "events"

HandleNone ==
    /\ pc = "events"
    /\ actions # <<>>
    /\ Head(actions) = "None"
    /\ actions' = Tail(actions)
    /\ pc' = Advance
    /\ expected' = None
    /\ at_return' = None
    /\ UNCHANGED <<buffer, command_line, result, spawned, outcome, envVars, resolverVars, editorVars>>

\* an Exit that only leaves the loop over the actions: `break` without label
HandleExit_break ==
    /\ pc = "events"
    /\ actions # <<>>
    /\ Head(actions) = "Exit"
    /\ pc' = "render"
    /\ expected' = None
    /\ at_return' = None
    /\ UNCHANGED <<buffer, command_line, actions, result, spawned, outcome,
                   envVars, resolverVars, editorVars>>

HandleExit ==
    /\ pc = "events"
    /\ actions # <<>>
    /\ Head(actions) = "Exit"
    /\ pc' = "exited"
    /\ expected' = None
    /\ at_return' = None
    /\ UNCHANGED <<buffer, command_line, actions, result, spawned, outcome,
                   envVars, resolverVars, editorVars>>

HandleRunCommand ==
    /\ pc = "events"
    /\ actions # <<>>
    /\ Head(actions) = "RunCommand"
    /\ \E os \in OsOutcomes :
         LET r == run_command(command_line, path, fs, os) IN
         /\ result' = r
         /\ spawned' = spawned + (IF r.ran THEN 1 ELSE 0)
         /\ outcome' = IF r.child = None THEN outcome ELSE os
         /\ IF r.tag = "Panic"
            THEN /\ pc' = "panicked"
                 /\ UNCHANGED <<buffer, command_line, actions>>
            ELSE LET after == on_result(buffer, command_line, r) IN
                 /\ Len(after[1]) <= MaxBuffer
                 /\ buffer' = after[1]
                 /\ command_line' = after[2]
                 /\ actions' = Tail(actions)
                 /\ pc' = Advance
    /\ expected' = None
    /\ at_return' = None
    /\ UNCHANGED <<envVars, resolverVars, editorVars>>

\* the redraw at the end of an iteration; the next iteration starts with no
\* call of run_command and no child process of its own
Render ==
    /\ pc = "render"
    /\ pc' = "input"
    /\ result' = NotRun
    /\ spawned' = 0
    /\ outcome' = None
    /\ UNCHANGED <<buffer, command_line, actions, expected, at_return, envVars, resolverVars, editorVars>>

\* rendering, texture creation or the copy fails: run() returns the error
RenderFails ==
    /\ pc = "render"
    /\ pc' = "failed"
    /\ UNCHANGED <<buffer, command_line, actions, result, spawned, outcome, expected, at_return,
                   envVars, resolverVars, editorVars>>

Next ==
    \/ Input
    \/ InputFails
    \/ HandleNone
    \/ HandleExit
    \/ HandleRunCommand
    \/ Render
    \/ RenderFails

Spec == Init /\ [][Next]_vars

\* ---------------------------------------------------------------- resolver harness
\* the names the resolvers are called with: a tool, the empty name, an
\* absolute path and a name that is nowhere
Names == {<<"t">>, <<>>, ToolB, <<"x">>}

NameLists == SeqsUpTo(Names, MaxNames)

InitResolver ==
    /\ buffer = <<>>
    /\ command_line = <<>>
    /\ pc = "off"
    /\ actions = <<>>
    /\ result = NotRun
    /\ spawned = 0
    /\ outcome = None
    /\ expected = None
    /\ at_return = None
    /\ InitEnv
    /\ to_check \in NameLists
    /\ found = <<>>
    /\ each = <<>>
    /\ rpc = "start"
    /\ key = <<>>
    /\ before = <<>>
    /\ epc = "off"

CallFindCommands ==
    /\ rpc = "start"
    /\ found' = find_commands(to_check, path, fs)
    /\ rpc' = "batch"
    /\ UNCHANGED <<sessionVars, envVars, editorVars, to_check, each>>

CallFindCommand ==
    /\ rpc = "batch"
    /\ each' = [i \in 1..Len(to_check) |-> find_command(to_check[i], path, fs)]
    /\ rpc' = "done"
    /\ UNCHANGED <<sessionVars, envVars, editorVars, to_check, found>>

NextResolver ==
    \/ CallFindCommands
    \/ CallFindCommand

SpecResolver == InitResolver /\ [][NextResolver]_vars

\* ---------------------------------------------------------------- editor harness
\* input() called with one pending event, for every key of the keyboard the
\* match of input() tells apart, with and without modifiers
Keycodes == DOMAIN KeyTable \cup {"Backspace", "Return", "Escape", "F1", "None"}

\* Mod values: none, the left shift, another modifier, left shift with NumLock
Keymods == {"NOMOD", "LSHIFTMOD", "LCTRLMOD", "LSHIFTMOD_NUMMOD"}

EditorEvents ==
    {KeyDown(k, m) : k \in Keycodes, m \in Keymods}
    \cup {OtherEvent(t) : t \in {"Quit", "TextInput", "TextEditing", "MouseMotion"}}

BuildTheThing ==
    <<"b", "u", "i", "l", "d", " ", "t", "h", "e", " ", "t", "h", "i", "n", "g">>

\* the lines the event arrives on: all short ones over two characters, and
\* two longer ones
EditorLines ==
    SeqsUpTo({"l", " "}, MaxEditLine) \cup {BuildTheThing, SubSeq(BuildTheThing, 1, 5)}

InitEditor ==
    /\ buffer \in {<<>>, <<"h", "i">>}
    /\ command_line \in EditorLines
    /\ pc = "off"
    /\ actions = <<>>
    /\ result = NotRun
    /\ spawned = 0
    /\ outcome = None
    /\ expected = None
    /\ at_return = None
    /\ path = SessionPath
    /\ fs = {}
    /\ to_check = <<>>
    /\ found = <<>>
    /\ each = <<>>
    /\ rpc = "off"
    /\ key \in EditorEvents
    /\ before = <<>>
    /\ epc = "poll"

\* input() with the one event pending
PressKey ==
    /\ epc = "poll"
    /\ before' = command_line
    /\ command_line' = drain_line(command_line, <<key>>)
    /\ actions' = input_actions(<<key>>)
    /\ epc' = "edited"
    /\ UNCHANGED <<buffer, pc, result, spawned, outcome, expected, at_return,
                   envVars, resolverVars, key>>

NextEditor == PressKey

SpecEditor == InitEditor /\ [][NextEditor]_vars

\* ---------------------------------------------------------------- properties
\* run() is about to handle a RunCommand action (a Submit)
Submitting == pc = "events" /\ actions # <<>> /\ Head(actions) = "RunCommand"

\* a line that is empty or consists of whitespace only
Blank(cl) == \A i \in 1..Len(cl) : cl[i] \in AsciiWhitespace

\* the program name of a line that is not blank
ProgramName(cl) == split_ascii_whitespace(cl)[1]

\* C1: find_commands returns, name by name, what find_command returns
C1_BatchEqualsSingle ==
    rpc = "done" =>
        /\ Len(found) = Len(to_check)
        /\ \A i \in 1..Len(to_check) : found[i] = each[i]

\* C2: a Submit of an empty or whitespace-only line makes run_command return
\* the EmptyCommand error, resolves and spawns nothing and changes neither the
\* line nor the transcript
C2_BlankSubmitIsEmptyCommand ==
    [][(Submitting /\ Blank(command_line)) =>
          /\ result'.tag = "Err"
          /\ result'.val = "EmptyCommand"
          /\ result'.child = None
          /\ pc' # "panicked"
          /\ command_line' = command_line
          /\ buffer' = buffer]_vars

\* C3: a Submit of a line whose program name is not found on the search path
\* leaves the transcript and the line as they were
C3_UnresolvedSubmitChangesNothing ==
    [][(/\ Submitting
        /\ ~Blank(command_line)
        /\ find_command(ProgramName(command_line), path, fs) = None) =>
          /\ buffer' = buffer
          /\ command_line' = command_line]_vars

\* C4: no sequence of input events crashes the session
C4_NeverPanics == pc # "panicked"

\* C5: at most one external program is executed within one iteration
C5_OneProgramPerIteration == spawned <= 1

\* C6: a Submit that fails with SpawnFailed or InvalidOutputEncoding appends
\* an error line to the transcript and the session goes on
C6_RunErrorIsShown ==
    [][(/\ Submitting
        /\ result'.tag = "Err"
        /\ result'.val \in {"SpawnFailed", "InvalidOutputEncoding"}) =>
          /\ IsPrefix(buffer, buffer')
          /\ Len(buffer') > Len(buffer)
          /\ pc' \in {"events", "render"}]_vars

\* a search-path entry that exists, is a directory and has an entry of the name
Qualifies(dir, name) == Stat(dir, fs) = "dir" /\ Stat(join(dir, name), fs) # "none"

C8_SuccessAppendsStdout ==
    [][(/\ Submitting
        /\ result'.tag = "Ok"
        /\ result'.ran) =>
          /\ outcome'[1] = "Stdout"
          /\ buffer' = buffer \o outcome'[2]
          /\ command_line' = <<>>]_vars

C8_Witness ==
    /\ result.tag = "Ok"
    /\ result.ran
    /\ outcome = <<"Stdout", <<"h", "i">>>>
    /\ buffer = <<"h", "i", "h", "i">>
    /\ command_line = <<>>

\* C9: a Submit for which run_command returns an error leaves the line as it
\* was; the line changes in a Submit only when run_command returns Ok
C9_ErrorKeepsLine ==
    [][Submitting =>
          /\ (result'.tag = "Err" => command_line' = command_line)
          /\ (command_line' # command_line => result'.tag = "Ok")]_vars

C9_Witness ==
    /\ result.tag = "Err"
    /\ result.val \in {"SpawnFailed", "InvalidOutputEncoding"}
    /\ command_line = <<"t", " ", "t">>

\* C10: the transcript before a step is a prefix of the transcript after it
C10_TranscriptAppendOnly == [][IsPrefix(buffer, buffer')]_vars

\* output was printed, a line was typed and edited, and the session was left
C10_Witness ==
    /\ buffer = <<"h", "i">>
    /\ command_line = <<"t", " ">>
    /\ pc = "exited"

\* ---------------------------------------------------------------- editing properties
\* the table keys and their characters as the documentation lists them
TableKeys ==
    <<"A", "B", "C", "D", "E", "F", "G", "H", "I", "J", "K", "L", "M",
      "N", "O", "P", "Q", "R", "S", "T", "U", "V", "W", "X", "Y", "Z",
      "Space", "Slash", "Period">>

TableChars ==
    <<"a", "b", "c", "d", "e", "f", "g", "h", "i", "j", "k", "l", "m",
      "n", "o", "p", "q", "r", "s", "t", "u", "v", "w", "x", "y", "z",
      " ", "/", ".">>

OnlyTableChars(cl) ==
    \A i \in 1..Len(cl) : \E k \in 1..Len(TableChars) : cl[i] = TableChars[k]

\* the whitespace-delimited tokens of a line, by position: a token starts at
\* a non-whitespace character that begins the line or follows whitespace and
\* runs up to the next whitespace or the end
TokenStarts(s) ==
    {i \in 1..Len(s) : s[i] \notin AsciiWhitespace
                       /\ (i = 1 \/ s[i - 1] \in AsciiWhitespace)}

TokenEnd(s, i) ==
    CHOOSE j \in i..Len(s) :
        /\ \A k \in i..j : s[k] \notin AsciiWhitespace
        /\ (j = Len(s) \/ s[j + 1] \in AsciiWhitespace)

Tokens(s) ==
    LET nth(k) == CHOOSE i \in TokenStarts(s) :
                      Cardinality({j \in TokenStarts(s) : j < i}) = k - 1
    IN [k \in 1..Cardinality(TokenStarts(s)) |-> SubSeq(s, nth(k), TokenEnd(s, nth(k)))]

\* r is cl's tokens without the last one, joined by single spaces
WithoutLastToken(cl, r) ==
    IF Len(Tokens(cl)) <= 1 THEN r = <<>>
    ELSE /\ Tokens(r) = SubSeq(Tokens(cl), 1, Len(Tokens(cl)) - 1)
         /\ \A i \in 1..Len(r) : r[i] \in AsciiWhitespace => r[i] = " "
         /\ Cardinality({i \in 1..Len(r) : r[i] = " "}) = Len(Tokens(cl)) - 2

\* input() is about to be called with the one event of the harness
Polling(ev) == epc = "poll" /\ key = ev

DeleteWordKey == KeyDown("Backspace", "LSHIFTMOD")
DeleteCharKey == KeyDown("Backspace", "NOMOD")

\* C11: the line holds only characters of the key table, in every reachable
\* state of the session and after any further event of the keyboard
C11_OnlyTableCharacters ==
    /\ OnlyTableChars(command_line)
    /\ \A ev \in EditorEvents : OnlyTableChars(edit(command_line, ev))

\* keys were typed, with and without modifier, and a Submit has failed
C11_Witness ==
    /\ pc = "render"
    /\ command_line = <<"t", " ", "t">>
    /\ result.tag = "Err"

\* C12: find_command of the empty name returns nothing
C12_EmptyNameUnresolved ==
    rpc = "done" =>
        \A i \in 1..Len(to_check) : to_check[i] = <<>> => each[i] = None

\* C13: DeleteWord leaves the tokens without the last one, joined by single
\* spaces, the empty line for at most one token, and the transcript as it was
C13_DeleteWord ==
    [][Polling(DeleteWordKey) =>
          /\ WithoutLastToken(command_line, command_line')
          /\ (command_line = BuildTheThing =>
                command_line' = SubSeq(BuildTheThing, 1, 9))
          /\ (command_line = SubSeq(BuildTheThing, 1, 5) => command_line' = <<>>)
          /\ buffer' = buffer]_vars

C13_Witness ==
    /\ epc = "edited"
    /\ key = DeleteWordKey
    /\ before = BuildTheThing
    /\ command_line = <<"b", "u", "i", "l", "d", " ", "t", "h", "e">>

\* C14: DeleteChar removes exactly the last character of a line that has one,
\* leaves the empty line empty and the transcript as it was
C14_DeleteChar ==
    [][Polling(DeleteCharKey) =>
          /\ IF command_line = <<>> THEN command_line' = <<>>
             ELSE Append(command_line', command_line[Len(command_line)]) = command_line
          /\ buffer' = buffer]_vars

C14_Witness ==
    /\ epc = "edited"
    /\ key = DeleteCharKey
    /\ before = <<" ", "l">>
    /\ command_line = <<" ">>

\* C15: an unmodified key-down of a table key appends its character to the
\* line and changes nothing else
C15_KeyAppendsCharacter ==
    [][\A i \in 1..Len(TableKeys) :
          Polling(KeyDown(TableKeys[i], "NOMOD")) =>
              /\ command_line' = command_line \o <<TableChars[i]>>
              /\ buffer' = buffer
              /\ actions' = <<"None">>]_vars

\* s typed after l
C15_Witness ==
    /\ epc = "edited"
    /\ key = KeyDown("S", "NOMOD")
    /\ before = <<"l">>
    /\ command_line = <<"l", "s">>

HandledKeys == {TableKeys[i] : i \in 1..Len(TableKeys)} \cup {"Backspace", "Return", "Escape"}

NoSubmitNoCancel(acts) == \A i \in 1..Len(acts) : acts[i] \notin {"RunCommand", "Exit"}

\* C16 as stated: a key outside the table and every event that is no key-down
\* changes neither line nor transcript and produces neither Submit nor Cancel
C16_OtherEventsIgnored ==
    [][(/\ epc = "poll"
        /\ \/ key.type # "KeyDown"
           \/ key.keycode \notin HandledKeys) =>
          /\ command_line' = command_line
          /\ buffer' = buffer
          /\ NoSubmitNoCancel(actions')]_vars

\* C16 as amended: the same for every such event but Quit, which produces
\* the Cancel
C16_OtherEventsButQuitIgnored ==
    [][(/\ epc = "poll"
        /\ key.type # "Quit"
        /\ \/ key.type # "KeyDown"
           \/ key.keycode \notin HandledKeys) =>
          /\ command_line' = command_line
          /\ buffer' = buffer
          /\ NoSubmitNoCancel(actions')]_vars

C16_Witness ==
    /\ epc = "edited"
    /\ key = KeyDown("F1", "LSHIFTMOD")
    /\ before = <<"l", " ", "l">>
    /\ command_line = <<"l", " ", "l">>
    /\ actions = <<"None">>

\* the path of the earliest search directory that has the name
Resolved(name) ==
    LET q == {k \in 1..Len(path) : Qualifies(path[k], name)}
        first == CHOOSE k \in q : \A j \in q : k <= j
    IN IF q = {} THEN None ELSE Some(join(path[first], name))

\* C17: for a line that is not blank and whose program resolves, the program
\* spawned is the path resolved for token 0 and its arguments are all tokens
\* of the line in order, token 0 included
C17_ArgumentsAreAllTokens ==
    [][(/\ Submitting
        /\ ~Blank(command_line)
        /\ Resolved(Tokens(command_line)[1]) # None) =>
          result'.child =
              Some(<<Resolved(Tokens(command_line)[1])[2], Tokens(command_line)>>)]_vars

\* the line "t t" was run: /a/t with the arguments t, t
C17_Witness ==
    /\ result.ran
    /\ result.child = Some(<<ToolA, <<<<"t">>, <<"t">>>>>>)

ModFlags ==
    [NOMOD |-> {}, LSHIFTMOD |-> {"LSHIFT"}, LCTRLMOD |-> {"LCTRL"},
     LSHIFTMOD_NUMMOD |-> {"LSHIFT", "NUM"}]

\* C19: Backspace with the delete-word modifier deletes a word; a key-down
\* that carries no recognized modifier is handled as the unmodified key: a
\* table key inserts its character, Backspace deletes a character
C19_UnmodifiedMappingApplies ==
    [][(epc = "poll" /\ key.type = "KeyDown") =>
          /\ (key = DeleteWordKey => WithoutLastToken(command_line, command_line'))
          /\ ("LSHIFT" \notin ModFlags[key.keymod] =>
                /\ \A i \in 1..Len(TableKeys) :
                      key.keycode = TableKeys[i] =>
                          command_line' = command_line \o <<TableChars[i]>>
                /\ (key.keycode = "Backspace" =>
                      command_line' = SubSeq(command_line, 1, Len(command_line) - 1)))]_vars

\* C20: the step that processes an Exit ends the loop and changes nothing of
\* the session; nothing happens after it; the loop is left through an Exit
\* only when the Exit is the next action, every Submit before it having run
C20_ExitEndsTheLoop ==
    [][/\ (pc = "events" /\ actions # <<>> /\ Head(actions) = "Exit") =>
              /\ pc' = "exited"
              /\ UNCHANGED <<buffer, command_line, actions, result, spawned>>
       /\ pc # "exited"
       /\ (pc' = "exited" => (pc = "events" /\ actions # <<>> /\ Head(actions) = "Exit"))
       /\ (Submitting =>
              /\ result' # NotRun
              /\ (actions' = Tail(actions) \/ pc' = "panicked"))]_vars

\* the loop has ended with a Submit still behind the Exit: it was not run
C20_Witness ==
    /\ pc = "exited"
    /\ actions = <<"Exit", "RunCommand">>
    /\ command_line = <<"t">>
    /\ result = NotRun

====
